---- MODULE Spec2Model ----
(***************************************************************************)
(* Scheduled broadcast and delivery engine of routex_bot:                  *)
(*   services/broadcast.py  BroadcastService (batched, retried delivery)   *)
(*   services/scheduler.py  SchedulerService (timers per schedule)         *)
(*   db.py                  Database (schedules, deliveries, users, audit) *)
(* Every coroutine is cut at its awaits; one action is one resumed slice.  *)
(***************************************************************************)
EXTENDS Integers, Sequences, FiniteSets, Bags, TLC

(* ---------------- bounds of the model ---------------- *)
\* Each specification fixes the size of the users table, the timer fires it
\* follows, the non-success answers the transport may give, the largest
\* configured BATCH_SIZE and the hour at which the clock stops.
MaxSchedules == 2      \* ids of the schedules table (AUTOINCREMENT ids 1..MaxSchedules)
MaxAdds == 1           \* add_schedule calls
MaxOps == 2            \* toggle/delete commands over the whole behaviour
TickHours == 12        \* hours one clock step advances
\* Spec: commands interleaving with fires
SchedUsers == 2
SchedFires == 2
SchedFaults == 2
SchedBatch == 2
SchedClock == 36
\* SpecRetry: one fire, every sequence of transport answers
RetryUsers == 2
RetryFires == 1
RetryFaults == 4
RetryBatch == 2
RetryClock == 12
\* SpecDedup: repeated fires of one schedule across the dedup window
DedupUsers == 2
DedupFires == 2
DedupFaults == 2
DedupBatch == 1
DedupClock == 36
\* SpecBatch: one fire over a larger users table
BatchUsers == 3
BatchFires == 1
BatchFaults == 2
BatchBatch == 2
BatchClock == 12
\* SpecSnapshot: fires interleaving with /optout
SnapUsers == 2
SnapFires == 1
SnapFaults == 2
SnapBatch == 1
SnapClock == 12
\* SpecPair: two armed schedules whose runs interleave
PairUsers == 2
PairFires == 2
PairFaults == 2
PairBatch == 1
PairClock == 12
\* SpecRender: one fire for every message template
RenderUsers == 2       \* recipients of the rendered broadcast
RenderFires == 1       \* fires of its schedule
RenderFaults == 2      \* transport answers other than ok
RenderBatch == 2       \* largest batch size
RenderClock == 12      \* last hour of the clock
\* SpecSegment: one fire over every segment and every small users table
SegUsers == 2
SegFires == 1
SegFaults == 2
SegBatch == 1
SegClock == 12

\* SpecStart: the scheduler starting over a persisted schedules table
StartSchedules == 2
\* SpecHmac: requests signed by the bot and verified by the service
HmacRequests == 2      \* requests the client signs
ServiceTicks == 2      \* steps of the service clock
TickSeconds == 200     \* seconds one step of the service clock advances
Epoch == 1000          \* time.time() when the service starts, seconds
\* SpecFlow: key issue and lookup requests against the panel
FlowRequests == 2      \* requests the key service receives
FlowFaults == 1        \* error answers the panel may give
\* SpecKeys: users asking the bot for their key, opting out and in
KeyCalls == 2          \* /getkey commands
KeyClock == 24         \* last hour of the clock

(* ---------------- program constants ---------------- *)
RetryLimit == 3        \* while tries < 3 in _retry_delivery
DedupHours == 24       \* within_hours default of has_recent_delivery
NULL == 0              \* SQL NULL of an integer column (ids start at 1)
InactiveHours == 720   \* timedelta(days=30) of the inactive_30d segment
MaxAgeSeconds == 300   \* max_age_seconds default of verify_hmac
DefaultTtl == 300      \* IdempotencyCache(ttl_seconds=300)

SchedIds == 1..MaxSchedules

RetryLimitExceeded == "Retry limit exceeded"

VARIABLES
    batch_size,     \* BroadcastService.batch_size
    users,          \* users table: id -> row (id = tg_id here)
    schedules,      \* schedules table: id -> row (exists = FALSE: no such row)
    next_id,        \* next AUTOINCREMENT id of the schedules table
    deliveries,     \* deliveries table: sequence of rows, id = index
    audit,          \* audit_log table, as a bag of events
    jobs,           \* APScheduler job store: set of jobs
    run,            \* per schedule id: the _job_runner / broadcast coroutine
    ops,            \* admin coroutines suspended at an await
    now,            \* wall clock, hours
    fires,          \* timer fires so far
    limits,         \* fires and clock limits of the behaviour (never change)
    faults,         \* non-success transport responses the transport may still give
    opcount,        \* admin commands so far
    boot            \* SchedulerService.start(): where it is, how it ended

\* the key service (bot/security.py, service/security.py) 
VARIABLES
    clock,          \* int(time.time()) of the key service and its client
    wire,           \* signed HTTP requests sent and not yet handled
    verdicts,       \* what verify_hmac did with each handled request
    cache,          \* IdempotencyCache: _ttl and _storage
    sets,           \* per key: the latest set() call and its time
    got,            \* the latest get() call and what it returned
    panel,          \* the VPN panel: its clients, the error answers it may still give
    tasks,          \* issue_key coroutines suspended at runner.call
    replies,        \* the responses the key service has returned, in order
    xui,            \* routex_bot.services.xui_client as the interpreter loaded it
    keycalls        \* how each call of ensure_or_create_key ended, in order

evars == <<batch_size, users, schedules, next_id, deliveries, audit, jobs,
           run, ops, now, fires, limits, faults, opcount, boot>>
rvars == <<clock, wire, verdicts, cache, sets, got, panel, tasks, replies>>
kvars == <<xui, keycalls>>
svars == <<rvars, kvars>>
vars == <<evars, svars>>

(* ---------------- pure helpers ---------------- *)
Max(a, b) == IF a >= b THEN a ELSE b

\* chunked() without its trailing `if chunk: yield chunk`
RECURSIVE chunked_no_tail(_, _)
chunked_no_tail(iterable, size) ==
    IF Len(iterable) < size THEN <<>>
    ELSE <<SubSeq(iterable, 1, size)>>
         \o chunked_no_tail(SubSeq(iterable, size + 1, Len(iterable)), size)

\* broadcast.py chunked(): consecutive chunks of `size`, the last possibly shorter
RECURSIVE chunked(_, _)
chunked(iterable, size) ==
    IF Len(iterable) = 0 THEN <<>>
    ELSE IF Len(iterable) <= size THEN <<iterable>>
    ELSE <<SubSeq(iterable, 1, size)>> \o chunked(SubSeq(iterable, size + 1, Len(iterable)), size)

\* ascending sequence of the members of a set of integers (store iteration order)
RECURSIVE SortedSeq(_)
SortedSeq(S) ==
    IF S = {} THEN <<>>
    ELSE LET m == CHOOSE x \in S : \A y \in S : x <= y
         IN <<m>> \o SortedSeq(S \ {m})

(* ---------------- Database ---------------- *)
NoSchedule == [exists |-> FALSE, type |-> "", spec |-> "", segment |-> [type |-> "", where |-> ""],
               text |-> <<>>, enabled |-> FALSE, next_run_at |-> NULL]

NullText == "NULL"     \* SQL NULL of a text column

\* a row of the users table as ensure_user inserts it at hour t
NewUser(t) == [is_subscribed |-> TRUE, last_activity_at |-> t,
               key |-> NullText, is_donor |-> FALSE]

\* segments as the handlers build them: {"type": ..., "where": ...}
Segment(type, where) == [type |-> type, where |-> where]
AllSubscribed == Segment("all_subscribed", "")
\* WHERE conditions an administrator may type for a custom_sql segment
WhereClauses == {"", "is_donor = 1 -- x", "is_donor = 1", "key IS NULL"}
\* a segment dict without the key "type"
Missing == "<missing>"
\* segment.get("type", "all_subscribed"), line 267
seg_type(segment) == IF segment.type = Missing THEN "all_subscribed" ELSE segment.type

SegmentInputs ==
    {Segment(t, "") : t \in {"all_subscribed", "no_key", "inactive_30d", "donors",
                             "vip", Missing}}
    \cup {Segment("custom_sql", w) : w \in WhereClauses}

\* SQLite evaluating a typed WHERE condition on one users row
Where(where, row) ==
    CASE where = "is_donor = 1" -> row.is_donor
      [] where = "key IS NULL" -> row.key = NullText
      [] OTHER -> FALSE

\* list_users_for_segment without its WHERE conditions
list_users_for_segment_all(segment, tbl, t) == SortedSeq(DOMAIN tbl)

\* the custom_sql guard without its test for the comment marker
segment_rejected_empty_only(segment) ==
    seg_type(segment) = "custom_sql" /\ segment.where = ""

\* db.list_users_for_segment, lines 279-282: the custom_sql guard raises
\* ValueError before the query is executed
segment_rejected(segment) ==
    /\ seg_type(segment) = "custom_sql"
    /\ \/ segment.where = ""
       \/ segment.where \in {"is_donor = 1 -- x"}      \* "--" in where_clause

\* list_users_for_segment whose else branch selects nobody
list_users_for_segment_strict(segment, tbl, t) ==
    SortedSeq({u \in DOMAIN tbl :
        /\ seg_type(segment) # "custom_sql" => tbl[u].is_subscribed
        /\ CASE seg_type(segment) = "all_subscribed" -> TRUE
             [] seg_type(segment) = "no_key" -> tbl[u].key = NullText
             [] seg_type(segment) = "inactive_30d" ->
                    tbl[u].last_activity_at < t - InactiveHours
             [] seg_type(segment) = "donors" -> tbl[u].is_donor
             [] seg_type(segment) = "custom_sql" -> Where(segment.where, tbl[u])
             [] OTHER -> FALSE})

\* list_users_for_segment with the subscription filter on all_subscribed only
list_users_for_segment_unfiltered(segment, tbl, t) ==
    SortedSeq({u \in DOMAIN tbl :
        /\ seg_type(segment) \notin {"custom_sql", "no_key", "donors"} =>
              tbl[u].is_subscribed
        /\ CASE seg_type(segment) = "no_key" -> tbl[u].key = NullText
             [] seg_type(segment) = "inactive_30d" ->
                    tbl[u].last_activity_at < t - InactiveHours
             [] seg_type(segment) = "donors" -> tbl[u].is_donor
             [] seg_type(segment) = "custom_sql" -> Where(segment.where, tbl[u])
             [] OTHER -> TRUE})

\* db.list_users_for_segment: the rows the SELECT returns, in id order
list_users_for_segment(segment, tbl, t) ==
    SortedSeq({u \in DOMAIN tbl :
        /\ seg_type(segment) # "custom_sql" => tbl[u].is_subscribed
        /\ CASE seg_type(segment) = "no_key" -> tbl[u].key = NullText
             [] seg_type(segment) = "inactive_30d" ->
                    tbl[u].last_activity_at < t - InactiveHours
             [] seg_type(segment) = "donors" -> tbl[u].is_donor
             [] seg_type(segment) = "custom_sql" -> Where(segment.where, tbl[u])
             [] OTHER -> TRUE})

\* db.enqueue_delivery: INSERT with status queued; the new id is the row count.
\* History columns, not in the table: fire (the fire that inserted the row),
\* attempts (send_message calls), limited (TelegramRetryAfter answers),
\* changes (update_delivery calls).
enqueue_delivery(rows, schedule_id, user_id, fire) ==
    Append(rows, [schedule_id |-> schedule_id, user_id |-> user_id,
                  status |-> "queued", error |-> "", sent_at |-> -1,
                  fire |-> fire, attempts |-> 0, limited |-> 0, changes |-> 0])

\* has_recent_delivery with the comparison of sent_at turned around
has_recent_delivery_stale(rows, schedule_id, user_id, t) ==
    \E i \in 1..Len(rows) :
        /\ rows[i].schedule_id = schedule_id
        /\ rows[i].user_id = user_id
        /\ rows[i].sent_at # -1
        /\ rows[i].sent_at <= t - DedupHours

\* has_recent_delivery that counts only rows with status sent
has_recent_delivery_sent(rows, schedule_id, user_id, t) ==
    \E i \in 1..Len(rows) :
        /\ rows[i].schedule_id = schedule_id
        /\ rows[i].user_id = user_id
        /\ rows[i].status = "sent"
        /\ rows[i].sent_at # -1
        /\ rows[i].sent_at >= t - DedupHours

\* has_recent_delivery that also reports recipients who have unsubscribed
has_recent_delivery_or_unsubscribed(rows, schedule_id, user_id, t) ==
    \/ ~users[user_id].is_subscribed
    \/ \E i \in 1..Len(rows) :
        /\ rows[i].schedule_id = schedule_id
        /\ rows[i].user_id = user_id
        /\ rows[i].sent_at # -1
        /\ rows[i].sent_at >= t - DedupHours

\* db.has_recent_delivery
has_recent_delivery(rows, schedule_id, user_id, t) ==
    \E i \in 1..Len(rows) :
        /\ rows[i].schedule_id = schedule_id
        /\ rows[i].user_id = user_id
        /\ rows[i].sent_at # -1
        /\ rows[i].sent_at >= t - DedupHours

\* update_delivery as an INSERT of the new state instead of an UPDATE
update_delivery_insert(rows, delivery_id, status, error, t) ==
    Append(rows, [rows[delivery_id] EXCEPT !.status = status, !.error = error,
                                           !.sent_at = t, !.changes = 1])

\* update_delivery that records the error and the time but not the status
update_delivery_keep_status(rows, delivery_id, status, error, t) ==
    [rows EXCEPT ![delivery_id].error = error,
                 ![delivery_id].sent_at = t,
                 ![delivery_id].changes = rows[delivery_id].changes + 1]

\* db.update_delivery
update_delivery(rows, delivery_id, status, error, t) ==
    [rows EXCEPT ![delivery_id].status = status,
                 ![delivery_id].error = error,
                 ![delivery_id].sent_at = t,
                 ![delivery_id].changes = rows[delivery_id].changes + 1]

\* update_subscription that leaves the flag alone
update_subscription_noop(tbl, tg_id, subscribed, t) ==
    [tbl EXCEPT ![tg_id].last_activity_at = t]

\* db.update_subscription
update_subscription(tbl, tg_id, subscribed, t) ==
    [tbl EXCEPT ![tg_id].is_subscribed = subscribed,
                ![tg_id].last_activity_at = t]

\* db.touch_activity
touch_activity(tbl, tg_id, t) == [tbl EXCEPT ![tg_id].last_activity_at = t]

\* db.delete_schedule with ON DELETE SET NULL on deliveries.schedule_id
delete_schedule_rows(rows, schedule_id) ==
    [i \in 1..Len(rows) |->
        IF rows[i].schedule_id = schedule_id
        THEN [rows[i] EXCEPT !.schedule_id = NULL] ELSE rows[i]]

(* ---------------- SchedulerService helpers ---------------- *)
ValidCron == {"0 10 * * 1"}
ValidInterval == {"{minutes: 30}"}
\* what the administrator's wizard can hand to add_schedule (type, spec)
ScheduleInputs ==
    { [type |-> "cron", spec |-> "0 10 * * 1"],
      [type |-> "interval", spec |-> "{minutes: 30}"],
      [type |-> "cron", spec |-> "every monday"],
      [type |-> "interval", spec |-> "{foo: 3}"] }
\* the segments the wizard is followed with
AdminSegments == {AllSubscribed, Segment("custom_sql", "is_donor = 1 -- x")}

ValueError == [kind |-> "ValueError", spec |-> ""]
TypeError == [kind |-> "TypeError", spec |-> ""]
TriggerErrors == {ValueError, TypeError}

\* scheduler._build_trigger
_build_trigger(schedule) ==
    IF schedule.type = "cron"
    THEN IF schedule.spec \in ValidCron
         THEN [kind |-> "cron", spec |-> schedule.spec] ELSE ValueError
    ELSE IF schedule.type = "interval"
    THEN IF schedule.spec \in ValidInterval
         THEN [kind |-> "interval", spec |-> schedule.spec]
         ELSE TypeError               \* IntervalTrigger(**params): unknown unit
    ELSE ValueError

\* scheduler.add_job(..., id = job_id, replace_existing = True)
add_job(js, id, trigger) ==
    {j \in js : j.id # id} \cup {[id |-> id, trigger |-> trigger]}

\* job.remove() for the job found by get_job(id), if any
remove_job(js, id) == {j \in js : j.id # id}

\* db.update_schedule_next_run: UPDATE ... WHERE id = ? (no row, no effect)
update_schedule_next_run(tbl, id) ==
    IF tbl[id].exists THEN [tbl EXCEPT ![id].next_run_at = 1] ELSE tbl

\* db.write_audit
write_audit(log, action, id, enabled) ==
    log (+) SetToBag({[action |-> action, id |-> id, enabled |-> enabled]})

(* ---------------- the coroutine of one fire ---------------- *)
(* ---------------- message templates ---------------- *)
\* A text is a sequence of tokens: "{" and "}" are the brace characters, any
\* other token stands for a run of characters without braces.
Rendered(text) == [raised |-> "", text |-> text]
Raised(error) == [raised |-> error, text |-> <<>>]

\* one replacement field of str.format(**placeholders) whose name is `name`
FormatField(name, placeholders) ==
    IF name \in {"", "0"} THEN Raised("IndexError")     \* positional, no args
    ELSE IF name \in DOMAIN placeholders THEN Rendered(<<placeholders[name]>>)
    ELSE Raised("KeyError")

\* str.format(**placeholders) from token i on, out being the text so far
RECURSIVE Format(_, _, _, _)
Format(template, placeholders, i, out) ==
    LET n == Len(template)
        at(k) == IF k <= n THEN template[k] ELSE "<end>"
    IN IF i > n THEN Rendered(out)
       ELSE IF at(i) = "{" /\ at(i + 1) = "{"
       THEN Format(template, placeholders, i + 2, Append(out, "{"))
       ELSE IF at(i) = "}" /\ at(i + 1) = "}"
       THEN Format(template, placeholders, i + 2, Append(out, "}"))
       ELSE IF at(i) = "}" THEN Raised("ValueError")     \* Single '}' encountered
       ELSE IF at(i) = "{"
       THEN IF at(i + 1) = "}"
            THEN LET field == FormatField("", placeholders)
                 IN IF field.raised # "" THEN field
                    ELSE Format(template, placeholders, i + 2, out \o field.text)
            ELSE IF at(i + 1) \notin {"{", "<end>"} /\ at(i + 2) = "}"
            THEN LET field == FormatField(at(i + 1), placeholders)
                 IN IF field.raised # "" THEN field
                    ELSE Format(template, placeholders, i + 3, out \o field.text)
            ELSE Raised("ValueError")    \* Single '{' / expected '}' before end
       ELSE Format(template, placeholders, i + 1, Append(out, at(i)))

\* _render_text, lines 123-126: the values behind {username} and {key}; the
\* users of the model have no Telegram username, so the fallback name is used
Placeholders(user) ==
    [username |-> "friend", key |-> IF user.key = NullText THEN "-" ELSE user.key]

\* BroadcastService._render_text: KeyError and ValueError fall back to the
\* raw template, any other exception of str.format leaves the method
_render_text(template, user) ==
    LET r == Format(template, Placeholders(user), 1, <<>>)
    IN IF r.raised \in {"KeyError", "ValueError"} THEN Rendered(template) ELSE r

DefaultText == <<"Hi ", "{", "username", "}", ", key: ", "{", "key", "}">>

\* texts an administrator enters, and texts broadcast_event builds around a
\* serialized JSON payload ({} for an empty payload, {"a": 1})
Templates ==
    { DefaultText,
      <<"Hi ", "{", "name", "}">>,
      <<"News: ", "{", "}", ".">>,
      <<"News: ", "{", "\"a\": 1", "}", ".">>,
      <<"50% off ", "{">>,
      <<"{", "{", "x", "}", "}", " ", "{", "key", "}">> }

AdminTexts == {DefaultText, <<"News: ", "{", "}", ".">>}

\* turn_flag is history: the subscription flag of the current recipient when
\* the loop reached them
IdleRun == [pc |-> "idle", started |-> FALSE, recipients |-> <<>>,
            text |-> <<>>, message_text |-> <<>>, turn_flag |-> TRUE,
            bi |-> 0, ui |-> 0, delivery_id |-> 0, tries |-> 0,
            queued |-> 0, sent |-> 0, failed |-> 0,
            fire |-> 0, skipped |-> 0, error |-> ""]

Batches(r) == chunked(r.recipients, batch_size)

\* end of one recipient's loop body: next recipient of the batch, or the
\* asyncio.sleep(delay_seconds) that follows the batch
Advance(r) ==
    IF r.ui < Len(Batches(r)[r.bi])
    THEN [r EXCEPT !.pc = "next", !.ui = r.ui + 1]
    ELSE [r EXCEPT !.pc = "pause"]

Outcomes == {"ok", "TelegramRetryAfter", "TelegramForbiddenError",
             "TelegramAPIError", "Exception"}

\* the transport answers; every answer but ok spends the fault budget
Answer(o) ==
    /\ o \in Outcomes
    /\ o # "ok" => faults > 0
    /\ faults' = IF o = "ok" THEN faults ELSE faults - 1

\* bot.send_message was called for delivery id and answered o
Attempt(rows, id, o) ==
    [rows EXCEPT ![id].attempts = rows[id].attempts + 1,
                 ![id].limited = rows[id].limited
                                 + (IF o = "TelegramRetryAfter" THEN 1 ELSE 0)]

IdemKeys == {"abc", "xyz"}              \* Idempotency-Key header values
NoContent == [action |-> "", uri |-> ""]
NoEntry == [present |-> FALSE, status_code |-> 0, content |-> NoContent, expires_at |-> 0]
None == [hit |-> FALSE, status_code |-> 0, content |-> NoContent]
NeverSet == [done |-> FALSE, status_code |-> 0, content |-> NoContent, at |-> 0]

\* IdempotencyCache.__init__
IdempotencyCache(ttl_seconds) ==
    [_ttl |-> ttl_seconds, _storage |-> [k \in IdemKeys |-> NoEntry]]

\* the key service before its first request
ServiceInit ==
    /\ clock = Epoch
    /\ wire = {}
    /\ verdicts = {}
    /\ cache = IdempotencyCache(DefaultTtl)
    /\ sets = [k \in IdemKeys |-> NeverSet]
    /\ got = [key |-> "", at |-> 0, result |-> None]
    /\ panel = [clients |-> {}, faults |-> 0]
    /\ tasks = {}
    /\ replies = <<>>
    /\ xui = "unloaded"
    /\ keycalls = <<>>

Init ==
    /\ ServiceInit
    /\ batch_size \in {Max(1, b) : b \in 0..SchedBatch}
    /\ users = [u \in 1..SchedUsers |-> NewUser(0)]
    /\ schedules = [s \in SchedIds |-> NoSchedule]
    /\ next_id = 1
    /\ deliveries = <<>>
    /\ audit = EmptyBag
    /\ jobs = {}
    /\ run = [s \in SchedIds |-> IdleRun]
    /\ ops = {}
    /\ now = 0
    /\ fires = 0
    /\ limits = [fires |-> SchedFires, clock |-> SchedClock]
    /\ faults = SchedFaults
    /\ opcount = 0
    /\ boot = "started"

\* APScheduler runs the job of schedule s (max_instances = 1 per job id)
Fire(s) ==
    /\ \E j \in jobs : j.id = s
    /\ run[s].pc \in {"idle", "done", "raised"}
    /\ fires < limits.fires
    /\ fires' = fires + 1
    /\ run' = [run EXCEPT ![s] = [IdleRun EXCEPT !.pc = "runner", !.fire = fires + 1]]
    /\ UNCHANGED <<svars, boot>>
    /\ UNCHANGED <<batch_size, users, schedules, next_id, deliveries, audit,
                   jobs, ops, now, limits, faults, opcount>>

\* _job_runner up to the first recipient: get_schedule, the enabled check,
\* broadcast() resolving its recipients
JobRunner(s) ==
    /\ run[s].pc = "runner"
    /\ LET schedule == schedules[s]
           recipients == list_users_for_segment(schedule.segment, users, now)
       IN IF ~schedule.exists \/ ~schedule.enabled
          THEN /\ run' = [run EXCEPT ![s].pc = "done"]
               /\ UNCHANGED schedules
          ELSE IF segment_rejected(schedule.segment)
          THEN \* ValueError out of broadcast() and of _job_runner
               /\ run' = [run EXCEPT ![s].pc = "raised", ![s].error = "ValueError"]
               /\ UNCHANGED schedules
          ELSE IF recipients = <<>>
          THEN /\ run' = [run EXCEPT ![s].pc = "done", ![s].started = TRUE]
               /\ schedules' = IF \E j \in jobs : j.id = s
                               THEN update_schedule_next_run(schedules, s)
                               ELSE schedules
          ELSE /\ run' = [run EXCEPT ![s].pc = "next", ![s].started = TRUE,
                                     ![s].text = schedule.text,
                                     ![s].recipients = recipients,
                                     ![s].bi = 1, ![s].ui = 1]
               /\ UNCHANGED schedules
    /\ UNCHANGED <<svars, boot>>
    /\ UNCHANGED <<batch_size, users, next_id, deliveries, audit, jobs, ops,
                   now, fires, limits, faults, opcount>>

\* broadcast(), lines 60-65: dedup check, enqueue_delivery, render
Enqueue(s) ==
    /\ run[s].pc = "next"
    /\ LET r == run[s]
           user_id == Batches(r)[r.bi][r.ui]
       IN IF s # NULL /\ has_recent_delivery(deliveries, s, user_id, now)
          THEN /\ run' = [run EXCEPT ![s] = Advance([r EXCEPT !.skipped = r.skipped + 1])]
               /\ UNCHANGED deliveries
          ELSE IF ~schedules[s].exists
          THEN \* FOREIGN KEY constraint failed: raised outside the try block
               /\ run' = [run EXCEPT ![s].pc = "raised", ![s].error = "IntegrityError"]
               /\ UNCHANGED deliveries
          ELSE LET rendered == _render_text(r.text, users[user_id])
               IN /\ deliveries' = enqueue_delivery(deliveries, s, user_id, r.fire)
                  /\ run' = IF rendered.raised # ""
                            THEN \* raised by line 65, outside the try block
                                 [run EXCEPT ![s].pc = "raised",
                                             ![s].error = rendered.raised,
                                             ![s].turn_flag = users[user_id].is_subscribed,
                                             ![s].delivery_id = Len(deliveries) + 1,
                                             ![s].queued = r.queued + 1]
                            ELSE [run EXCEPT ![s].pc = "send",
                                             ![s].turn_flag = users[user_id].is_subscribed,
                                             ![s].delivery_id = Len(deliveries) + 1,
                                             ![s].queued = r.queued + 1,
                                             ![s].message_text = rendered.text]
    /\ UNCHANGED <<svars, boot>>
    /\ UNCHANGED <<batch_size, users, schedules, next_id, audit, jobs, ops,
                   now, fires, limits, faults, opcount>>

\* broadcast(), lines 66-89: the first send_message and its except clauses
Send(s) ==
    /\ run[s].pc = "send"
    /\ \E o \in Outcomes :
        LET r == run[s]
            id == r.delivery_id
            user_id == deliveries[id].user_id
            rows == Attempt(deliveries, id, o)
        IN /\ Answer(o)
           /\ CASE o = "ok" ->
                    /\ deliveries' = update_delivery(rows, id, "sent", "", now)
                    /\ users' = touch_activity(users, user_id, now)
                    /\ run' = [run EXCEPT ![s] = Advance([r EXCEPT !.sent = r.sent + 1])]
                [] o = "TelegramRetryAfter" ->
                    /\ deliveries' = rows
                    /\ run' = [run EXCEPT ![s].pc = "backoff"]
                    /\ UNCHANGED users
                [] o = "TelegramForbiddenError" ->
                    /\ deliveries' = update_delivery(rows, id, "failed", o, now)
                    /\ run' = [run EXCEPT ![s] = Advance([r EXCEPT !.failed = r.failed + 1])]
                    /\ users' = update_subscription(users, user_id, FALSE, now)
                [] OTHER ->
                    /\ deliveries' = update_delivery(rows, id, "failed", o, now)
                    /\ run' = [run EXCEPT ![s] = Advance([r EXCEPT !.failed = r.failed + 1])]
                    /\ UNCHANGED users
    /\ UNCHANGED <<svars, boot>>
    /\ UNCHANGED <<batch_size, schedules, next_id, audit, jobs, ops, now, fires, limits, opcount>>

\* asyncio.sleep(exc.retry_after) of line 73 is over: _retry_delivery starts
Backoff(s) ==
    /\ run[s].pc = "backoff"
    /\ run' = [run EXCEPT ![s].pc = "retry", ![s].tries = 0]
    /\ UNCHANGED <<svars, boot>>
    /\ UNCHANGED <<batch_size, users, schedules, next_id, deliveries, audit,
                   jobs, ops, now, fires, limits, faults, opcount>>

\* _retry_delivery, lines 102-118: one send_message of the loop
Retry(s) ==
    /\ run[s].pc = "retry"
    /\ \E o \in Outcomes :
        LET r == run[s]
            id == r.delivery_id
            user_id == deliveries[id].user_id
            rows == Attempt(deliveries, id, o)
        IN /\ Answer(o)
           /\ CASE o = "ok" ->
                    /\ deliveries' = update_delivery(rows, id, "sent", "", now)
                    /\ users' = touch_activity(users, user_id, now)
                    /\ run' = [run EXCEPT ![s] = Advance([r EXCEPT !.sent = r.sent + 1])]
                [] o = "TelegramRetryAfter" ->
                    /\ deliveries' = rows
                    /\ run' = [run EXCEPT ![s].pc = "retry_sleep", ![s].tries = r.tries + 1]
                    /\ UNCHANGED users
                [] o = "TelegramForbiddenError" ->
                    /\ deliveries' = update_delivery(rows, id, "failed", o, now)
                    /\ run' = [run EXCEPT ![s] = Advance([r EXCEPT !.failed = r.failed + 1])]
                    /\ users' = update_subscription(users, user_id, FALSE, now)
                [] o = "TelegramAPIError" ->
                    /\ deliveries' = update_delivery(rows, id, "failed", o, now)
                    /\ run' = [run EXCEPT ![s] = Advance([r EXCEPT !.failed = r.failed + 1])]
                    /\ UNCHANGED users
                [] OTHER ->
                    \* no except clause in _retry_delivery, and the caller is
                    \* itself inside an except clause: broadcast() raises
                    /\ deliveries' = rows
                    /\ run' = [run EXCEPT ![s].pc = "raised", ![s].error = o]
                    /\ UNCHANGED users
    /\ UNCHANGED <<svars, boot>>
    /\ UNCHANGED <<batch_size, schedules, next_id, audit, jobs, ops, now, fires, limits, opcount>>

\* _retry_delivery, lines 109-110 and 119-120: the sleep is over, the loop
\* condition is tested again
RetrySleep(s) ==
    /\ run[s].pc = "retry_sleep"
    /\ LET r == run[s]
       IN IF r.tries < RetryLimit
          THEN /\ run' = [run EXCEPT ![s].pc = "retry"]
               /\ UNCHANGED deliveries
          ELSE /\ deliveries' = update_delivery(deliveries, r.delivery_id, "failed",
                                                RetryLimitExceeded, now)
               /\ run' = [run EXCEPT ![s] = Advance([r EXCEPT !.failed = r.failed + 1])]
    /\ UNCHANGED <<svars, boot>>
    /\ UNCHANGED <<batch_size, users, schedules, next_id, audit, jobs, ops,
                   now, fires, limits, faults, opcount>>

\* asyncio.sleep(delay_seconds) of line 90 is over: next batch, or return and
\* the rest of _job_runner (lines 118-122)
Pause(s) ==
    /\ run[s].pc = "pause"
    /\ LET r == run[s]
       IN IF r.bi < Len(Batches(r))
          THEN /\ run' = [run EXCEPT ![s].pc = "next", ![s].bi = r.bi + 1, ![s].ui = 1]
               /\ UNCHANGED schedules
          ELSE /\ run' = [run EXCEPT ![s].pc = "done"]
               /\ schedules' = IF \E j \in jobs : j.id = s
                               THEN update_schedule_next_run(schedules, s)
                               ELSE schedules
    /\ UNCHANGED <<svars, boot>>
    /\ UNCHANGED <<batch_size, users, next_id, deliveries, audit, jobs, ops,
                   now, fires, limits, faults, opcount>>

(* ---------------- SchedulerService commands ---------------- *)
Op(kind, id, enabled) == [kind |-> kind, id |-> id, enabled |-> enabled]

\* _add_job: build the trigger (may raise), replace the job, persist next run
_add_job(js, schedule, id) == add_job(js, id, _build_trigger(schedule))

\* add_schedule, line 58: db.add_schedule inserts the row (enabled by default)
AddSchedule ==
    /\ next_id <= MaxAdds
    /\ \E in \in ScheduleInputs, segment \in AdminSegments, text \in AdminTexts :
        schedules' = [schedules EXCEPT ![next_id] =
            [exists |-> TRUE, type |-> in.type, spec |-> in.spec,
             segment |-> segment, text |-> text, enabled |-> TRUE,
             next_run_at |-> NULL]]
    /\ ops' = ops \cup {Op("add", next_id, TRUE)}
    /\ next_id' = next_id + 1
    /\ UNCHANGED <<svars, boot>>
    /\ UNCHANGED <<batch_size, users, deliveries, audit, jobs, run, now,
                   fires, limits, faults, opcount>>

\* add_schedule, lines 59-64, and the schedule_create audit of the handler
AddScheduleArm ==
    \E op \in ops :
    /\ op.kind = "add"
    /\ ops' = ops \ {op}
    /\ LET schedule == schedules[op.id]
       IN IF ~schedule.exists
          THEN UNCHANGED <<jobs, schedules, audit>>          \* RuntimeError
          ELSE IF schedule.enabled /\ _build_trigger(schedule) \in TriggerErrors
          THEN UNCHANGED <<jobs, schedules, audit>>          \* raised by _add_job
          ELSE /\ jobs' = IF schedule.enabled THEN _add_job(jobs, schedule, op.id) ELSE jobs
               /\ schedules' = IF schedule.enabled
                               THEN update_schedule_next_run(schedules, op.id)
                               ELSE schedules
               /\ audit' = write_audit(audit, "schedule_create", op.id, TRUE)
    /\ UNCHANGED <<svars, boot>>
    /\ UNCHANGED <<batch_size, users, next_id, deliveries, run, now, fires, limits,
                   faults, opcount>>

\* /schedule_toggle <id>: the handler reads the row, asks for the opposite
\* state; toggle_schedule, line 86: db.set_schedule_enabled
ToggleSchedule(s) ==
    /\ opcount < MaxOps
    /\ schedules[s].exists
    /\ opcount' = opcount + 1
    /\ schedules' = [schedules EXCEPT ![s].enabled = ~schedules[s].enabled]
    /\ ops' = ops \cup {Op("toggle", s, ~schedules[s].enabled)}
    /\ UNCHANGED <<svars, boot>>
    /\ UNCHANGED <<batch_size, users, next_id, deliveries, audit, jobs, run,
                   now, fires, limits, faults>>

\* toggle_schedule, lines 87-96: arm or disarm, then the audit event
ToggleScheduleArm ==
    \E op \in ops :
    /\ op.kind = "toggle"
    /\ ops' = ops \ {op}
    /\ LET schedule == schedules[op.id]
       IN IF op.enabled
          THEN IF ~schedule.exists
               THEN /\ audit' = write_audit(audit, "schedule_toggle", op.id, op.enabled)
                    /\ UNCHANGED <<jobs, schedules>>
               ELSE IF _build_trigger(schedule) \in TriggerErrors
               THEN UNCHANGED <<jobs, schedules, audit>>     \* raised by _add_job
               ELSE /\ jobs' = _add_job(jobs, schedule, op.id)
                    /\ schedules' = update_schedule_next_run(schedules, op.id)
                    /\ audit' = write_audit(audit, "schedule_toggle", op.id, op.enabled)
          ELSE /\ jobs' = remove_job(jobs, op.id)
               /\ audit' = write_audit(audit, "schedule_toggle", op.id, op.enabled)
               /\ UNCHANGED schedules
    /\ UNCHANGED <<svars, boot>>
    /\ UNCHANGED <<batch_size, users, next_id, deliveries, run, now, fires, limits,
                   faults, opcount>>

\* delete_schedule, line 99: db.delete_schedule
DeleteSchedule(s) ==
    /\ opcount < MaxOps
    /\ opcount' = opcount + 1
    /\ schedules' = [schedules EXCEPT ![s] = NoSchedule]
    /\ deliveries' = delete_schedule_rows(deliveries, s)
    /\ ops' = ops \cup {Op("delete", s, FALSE)}
    /\ UNCHANGED <<svars, boot>>
    /\ UNCHANGED <<batch_size, users, next_id, audit, jobs, run, now, fires, limits, faults>>

\* delete_schedule, lines 100-103: remove the job, then the audit event
DeleteScheduleDisarm ==
    \E op \in ops :
    /\ op.kind = "delete"
    /\ ops' = ops \ {op}
    /\ jobs' = remove_job(jobs, op.id)
    /\ audit' = write_audit(audit, "schedule_delete", op.id, FALSE)
    /\ UNCHANGED <<svars, boot>>
    /\ UNCHANGED <<batch_size, users, schedules, next_id, deliveries, run, now,
                   fires, limits, faults, opcount>>

\* the wall clock advances
Tick ==
    /\ now < limits.clock
    /\ now' = now + TickHours
    /\ UNCHANGED <<svars, boot>>
    /\ UNCHANGED <<batch_size, users, schedules, next_id, deliveries, audit,
                   jobs, run, ops, fires, limits, faults, opcount>>

Next ==
    \/ AddSchedule
    \/ AddScheduleArm
    \/ \E s \in SchedIds : ToggleSchedule(s)
    \/ ToggleScheduleArm
    \/ \E s \in SchedIds : DeleteSchedule(s)
    \/ DeleteScheduleDisarm
    \/ \E s \in SchedIds : Fire(s)
    \/ \E s \in SchedIds : JobRunner(s)
    \/ \E s \in SchedIds : Enqueue(s)
    \/ \E s \in SchedIds : Send(s)
    \/ \E s \in SchedIds : Backoff(s)
    \/ \E s \in SchedIds : Retry(s)
    \/ \E s \in SchedIds : RetrySleep(s)
    \/ \E s \in SchedIds : Pause(s)
    \/ Tick

Spec == Init /\ [][Next]_vars

(* One armed schedule followed through its fires: the state add_schedule   *)
(* leaves behind, then only the timer, the transport and the clock act.   *)
ArmedText(tbl, segment, text, nFires, nFaults, maxBatch, lastHour) ==
    /\ ServiceInit
    /\ batch_size \in {Max(1, b) : b \in 0..maxBatch}
    /\ users = tbl
    /\ \E in \in {i \in ScheduleInputs : i.type = "cron" /\ i.spec \in ValidCron} :
        LET row == [exists |-> TRUE, type |-> in.type, spec |-> in.spec,
                    segment |-> segment, text |-> text, enabled |-> TRUE,
                    next_run_at |-> 1]
        IN /\ schedules = [s \in SchedIds |-> IF s = 1 THEN row ELSE NoSchedule]
           /\ jobs = _add_job({}, row, 1)
    /\ next_id = 2
    /\ deliveries = <<>>
    /\ audit = write_audit(EmptyBag, "schedule_create", 1, TRUE)
    /\ run = [s \in SchedIds |-> IdleRun]
    /\ ops = {}
    /\ now = 0
    /\ fires = 0
    /\ limits = [fires |-> nFires, clock |-> lastHour]
    /\ faults = nFaults
    /\ opcount = 0
    /\ boot = "started"

ArmedWith(tbl, segment, nFires, nFaults, maxBatch, lastHour) ==
    ArmedText(tbl, segment, DefaultText, nFires, nFaults, maxBatch, lastHour)

ArmedInit(nUsers, nFires, nFaults, maxBatch, lastHour) ==
    ArmedWith([u \in 1..nUsers |-> NewUser(0)], AllSubscribed,
              nFires, nFaults, maxBatch, lastHour)

\* rows of the users table after /start, set_key, mark_donor, opt-out and time
UserRows ==
    { NewUser(0),
      [is_subscribed |-> TRUE, last_activity_at |-> 0, key |-> "vless://k", is_donor |-> FALSE],
      [is_subscribed |-> TRUE, last_activity_at |-> 0 - InactiveHours - 1,
       key |-> "vless://k", is_donor |-> TRUE],
      [is_subscribed |-> FALSE, last_activity_at |-> 0, key |-> NullText, is_donor |-> TRUE] }

InitSegment ==
    \E tbl \in [1..SegUsers -> UserRows] : \E segment \in SegmentInputs :
        ArmedWith(tbl, segment, SegFires, SegFaults, SegBatch, SegClock)

InitRetry == ArmedInit(RetryUsers, RetryFires, RetryFaults, RetryBatch, RetryClock)
InitDedup == ArmedInit(DedupUsers, DedupFires, DedupFaults, DedupBatch, DedupClock)
InitBatch == ArmedInit(BatchUsers, BatchFires, BatchFaults, BatchBatch, BatchClock)

NextRun ==
    \/ \E s \in SchedIds : Fire(s)
    \/ \E s \in SchedIds : JobRunner(s)
    \/ \E s \in SchedIds : Enqueue(s)
    \/ \E s \in SchedIds : Send(s)
    \/ \E s \in SchedIds : Backoff(s)
    \/ \E s \in SchedIds : Retry(s)
    \/ \E s \in SchedIds : RetrySleep(s)
    \/ \E s \in SchedIds : Pause(s)
    \/ Tick

SpecRetry == InitRetry /\ [][NextRun]_vars
SpecDedup == InitDedup /\ [][NextRun]_vars
SpecBatch == InitBatch /\ [][NextRun]_vars
SpecSegment == InitSegment /\ [][NextRun]_vars

\* one armed schedule for every template, users with and without a key
InitRender ==
    \E text \in Templates :
    \E tbl \in [1..RenderUsers -> {NewUser(0), [NewUser(0) EXCEPT !.key = "vless://k"]}] :
        ArmedText(tbl, AllSubscribed, text, RenderFires, RenderFaults, RenderBatch,
                  RenderClock)

SpecRender == InitRender /\ [][NextRun]_vars

\* the store and the timers as completed commands leave them: nothing added
\* yet, or schedule 1 added and armed, or schedule 1 added and disabled
InitCommands ==
    \/ Init
    \/ \E e \in BOOLEAN :
        \E in \in {i \in ScheduleInputs : i.type = "cron" /\ i.spec \in ValidCron} :
        LET row == [exists |-> TRUE, type |-> in.type, spec |-> in.spec,
                    segment |-> AllSubscribed, text |-> DefaultText, enabled |-> e,
                    next_run_at |-> 1]
        IN /\ ServiceInit
           /\ batch_size = 1
           /\ users = [u \in 1..SchedUsers |-> NewUser(0)]
           /\ schedules = [s \in SchedIds |-> IF s = 1 THEN row ELSE NoSchedule]
           /\ jobs = IF e THEN _add_job({}, row, 1) ELSE {}
           /\ next_id = 2
           /\ deliveries = <<>>
           /\ audit = write_audit(EmptyBag, "schedule_create", 1, TRUE)
           /\ run = [s \in SchedIds |-> IdleRun]
           /\ ops = {}
           /\ now = 0
           /\ fires = 0
           /\ limits = [fires |-> 0, clock |-> 0]
           /\ faults = 0
           /\ opcount = 0
           /\ boot = "started"

NextCommands ==
    \/ AddSchedule
    \/ AddScheduleArm
    \/ \E s \in SchedIds : ToggleSchedule(s)
    \/ ToggleScheduleArm
    \/ \E s \in SchedIds : DeleteSchedule(s)
    \/ DeleteScheduleDisarm

SpecCommands == InitCommands /\ [][NextCommands]_vars

\* the two schedules of SpecPair
Pair == {1, 2}

\* two add_schedule calls have armed two schedules over the same users
InitPair ==
    /\ ServiceInit
    /\ batch_size \in {Max(1, b) : b \in 0..PairBatch}
    /\ users = [u \in 1..PairUsers |-> NewUser(0)]
    /\ \E in \in {i \in ScheduleInputs : i.type = "cron" /\ i.spec \in ValidCron} :
        LET row == [exists |-> TRUE, type |-> in.type, spec |-> in.spec,
                    segment |-> AllSubscribed, text |-> DefaultText, enabled |-> TRUE,
                    next_run_at |-> 1]
        IN /\ schedules = [s \in SchedIds |-> IF s \in Pair THEN row ELSE NoSchedule]
           /\ jobs = _add_job(_add_job({}, row, 1), row, 2)
    /\ next_id = 3
    /\ deliveries = <<>>
    /\ audit = write_audit(write_audit(EmptyBag, "schedule_create", 1, TRUE),
                           "schedule_create", 2, TRUE)
    /\ run = [s \in SchedIds |-> IdleRun]
    /\ ops = {}
    /\ now = 0
    /\ fires = 0
    /\ limits = [fires |-> PairFires, clock |-> PairClock]
    /\ faults = PairFaults
    /\ opcount = 0
    /\ boot = "started"

SpecPair == InitPair /\ [][NextRun]_vars

(* ---------------- SchedulerService.start ---------------- *)
\* db.list_schedules: ORDER BY created_at DESC, the newest row first
RECURSIVE list_schedules(_, _)
list_schedules(tbl, ids) ==
    IF ids = {} THEN <<>>
    ELSE LET m == CHOOSE x \in ids : \A y \in ids : x >= y
         IN <<m>> \o list_schedules(tbl, ids \ {m})

\* reload_jobs, lines 46-48: arm the enabled schedules in order; the first
\* _add_job that raises ends the loop
RECURSIVE reload_loop(_, _, _)
reload_loop(js, tbl, order) ==
    IF order = <<>> THEN [jobs |-> js, raised |-> FALSE, armed |-> {}]
    ELSE LET id == Head(order)
         IN IF ~tbl[id].enabled THEN reload_loop(js, tbl, Tail(order))
            ELSE IF _build_trigger(tbl[id]) \in TriggerErrors
            THEN [jobs |-> js, raised |-> TRUE, armed |-> {}]
            ELSE LET rest == reload_loop(_add_job(js, tbl[id], id), tbl, Tail(order))
                 IN [rest EXCEPT !.armed = @ \cup {id}]

\* start(), lines 34-36 and reload_jobs, lines 43-45: the scheduler runs, the
\* jobs it holds are removed, list_schedules is awaited
Start ==
    /\ boot = "init"
    /\ boot' = "list"
    /\ jobs' = {}
    /\ UNCHANGED svars
    /\ UNCHANGED <<batch_size, users, schedules, next_id, deliveries, audit, run, ops,
                   now, fires, limits, faults, opcount>>

\* reload_jobs, lines 45-48
ReloadJobs ==
    /\ boot = "list"
    /\ LET ids == {s \in DOMAIN schedules : schedules[s].exists}
           loaded == reload_loop(jobs, schedules, list_schedules(schedules, ids))
       IN /\ jobs' = loaded.jobs
          /\ schedules' = [s \in DOMAIN schedules |->
                             IF s \in loaded.armed
                             THEN [schedules[s] EXCEPT !.next_run_at = 1]
                             ELSE schedules[s]]
          /\ boot' = IF loaded.raised THEN "raised" ELSE "started"
    /\ UNCHANGED svars
    /\ UNCHANGED <<batch_size, users, next_id, deliveries, audit, run, ops,
                   now, fires, limits, faults, opcount>>

\* rows add_schedule and toggle_schedule leave in the schedules table
StoredRows ==
    {NoSchedule} \cup
    {[exists |-> TRUE, type |-> in.type, spec |-> in.spec, segment |-> AllSubscribed,
      text |-> DefaultText, enabled |-> e, next_run_at |-> NULL] :
        in \in ScheduleInputs, e \in BOOLEAN}

InitStart ==
    /\ ServiceInit
    /\ batch_size = 1
    /\ users = [u \in 1..SchedUsers |-> NewUser(0)]
    /\ schedules \in [1..StartSchedules -> StoredRows]
    /\ next_id = StartSchedules + 1
    /\ deliveries = <<>>
    /\ audit = EmptyBag
    /\ jobs = {}
    /\ run = [s \in 1..StartSchedules |-> IdleRun]
    /\ ops = {}
    /\ now = 0
    /\ fires = 0
    /\ limits = [fires |-> 0, clock |-> 0]
    /\ faults = 0
    /\ opcount = 0
    /\ boot = "init"

NextStart == Start \/ ReloadJobs
SpecStart == InitStart /\ [][NextStart]_vars

(* ---------------- HMAC-signed requests ---------------- *)
\* the engine at rest: nothing stored, nothing armed
EngineIdle ==
    /\ batch_size = 1
    /\ users = [u \in 1..SchedUsers |-> NewUser(0)]
    /\ schedules = [s \in SchedIds |-> NoSchedule]
    /\ next_id = 1
    /\ deliveries = <<>>
    /\ audit = EmptyBag
    /\ jobs = {}
    /\ run = [s \in SchedIds |-> IdleRun]
    /\ ops = {}
    /\ now = 0
    /\ fires = 0
    /\ limits = [fires |-> 0, clock |-> 0]
    /\ faults = 0
    /\ opcount = 0
    /\ boot = "started"

\* text is a sequence of characters
DigitChars == <<"0", "1", "2", "3", "4", "5", "6", "7", "8", "9">>

\* str(n) of a non-negative int
RECURSIVE Str(_)
Str(n) == IF n < 10 THEN <<DigitChars[n + 1]>>
          ELSE Str(n \div 10) \o <<DigitChars[(n % 10) + 1]>>

DigitValue(c) == CHOOSE d \in 0..9 : DigitChars[d + 1] = c

\* int(text): ValueError unless every character is a digit
IsInt(text) ==
    /\ text # <<>>
    /\ \A i \in 1..Len(text) : \E d \in 1..10 : DigitChars[d] = text[i]

RECURSIVE Int_(_)
Int_(text) == IF Len(text) = 1 THEN DigitValue(text[1])
              ELSE 10 * Int_(SubSeq(text, 1, Len(text) - 1)) + DigitValue(text[Len(text)])

\* hmac.new(key, message, sha256).hexdigest(): equal digests only for equal
\* key and message
hexdigest(key, message) == <<key, message>>

\* bot/security.py make_signature
bot_make_signature(secret, timestamp, nonce, body) ==
    hexdigest(secret, timestamp \o <<":">> \o nonce \o <<":">>)

\* bot/security.py build_signature_headers
build_signature_headers(secret, body, timestamp, nonce) ==
    [X_Timestamp |-> timestamp, X_Nonce |-> nonce,
     X_Signature |-> bot_make_signature(secret, timestamp, nonce, body)]

\* service/security.py make_signature
make_signature(secret, timestamp, nonce, body) ==
    hexdigest(secret, timestamp \o <<":">> \o nonce \o <<":">> \o body)

\* service/security.py verify_hmac at time t: "ok" or the SignatureError raised
verify_hmac(headers, body, secret, t) ==
    IF headers.X_Timestamp = <<>> \/ headers.X_Nonce = <<>> \/ headers.X_Signature = <<>>
    THEN "Missing HMAC headers"
    ELSE IF ~IsInt(headers.X_Timestamp)
    THEN "Invalid timestamp"
    ELSE LET timestamp_value == Int_(headers.X_Timestamp)
             age == IF t >= timestamp_value THEN t - timestamp_value
                    ELSE timestamp_value - t
         IN IF age > MaxAgeSeconds
            THEN "Timestamp is out of allowed window"
            ELSE IF make_signature(secret, headers.X_Timestamp, headers.X_Nonce, body)
                    # headers.X_Signature
            THEN "Invalid signature"
            ELSE "ok"

ServiceSecret == <<"s", "1">>          \* settings.hmac_secret
Secrets == {ServiceSecret, <<"s", "2">>}
Nonces == {<<"a", "b">>, <<"n">>}
Bodies == {<<>>, <<"{", "}">>}

\* the client signs a request with its secret at its clock and sends it
BotSign ==
    /\ Cardinality(wire) + Cardinality(verdicts) < HmacRequests
    /\ \E secret \in Secrets, nonce \in Nonces, body \in Bodies :
        wire' = wire \cup {[headers |-> build_signature_headers(secret, body, Str(clock), nonce),
                            body |-> body, secret |-> secret]}
    /\ UNCHANGED <<clock, verdicts, cache, sets, got, panel, tasks, replies>>
    /\ UNCHANGED kvars
    /\ UNCHANGED evars

\* hmac_guard: the service verifies one request against its own secret
ServiceVerify ==
    /\ \E m \in wire :
        /\ wire' = wire \ {m}
        /\ verdicts' = verdicts \cup
               {[request |-> m, at |-> clock,
                 result |-> verify_hmac(m.headers, m.body, ServiceSecret, clock)]}
    /\ UNCHANGED <<clock, cache, sets, got, panel, tasks, replies>>
    /\ UNCHANGED kvars
    /\ UNCHANGED evars

\* time passes on the service host
ClockTick ==
    /\ clock < Epoch + ServiceTicks * TickSeconds
    /\ clock' = clock + TickSeconds
    /\ UNCHANGED <<wire, verdicts, cache, sets, got, panel, tasks, replies>>
    /\ UNCHANGED kvars
    /\ UNCHANGED evars

InitHmac == EngineIdle /\ ServiceInit

(* ---------------- IdempotencyCache ---------------- *)
\* get() that never tests expires_at
cache_get_forever(c, key, t) ==
    LET cached == c._storage[key]
    IN IF ~cached.present THEN [result |-> None, cache |-> c]
       ELSE [result |-> [hit |-> TRUE, status_code |-> cached.status_code,
                         content |-> cached.content],
             cache |-> c]

\* IdempotencyCache.get at time t: the value returned and the cache afterwards
cache_get(c, key, t) ==
    LET cached == c._storage[key]
    IN IF ~cached.present THEN [result |-> None, cache |-> c]
       ELSE IF cached.expires_at < t
       THEN [result |-> None, cache |-> [c EXCEPT !._storage[key] = NoEntry]]
       ELSE [result |-> [hit |-> TRUE, status_code |-> cached.status_code,
                         content |-> cached.content],
             cache |-> c]

\* IdempotencyCache.set at time t
cache_set(c, key, status_code, content, t) ==
    [c EXCEPT !._storage[key] =
        [present |-> TRUE, status_code |-> status_code, content |-> content,
         expires_at |-> t + c._ttl]]

\* IdempotencyCache.clear
cache_clear(c) == [c EXCEPT !._storage = [k \in IdemKeys |-> NoEntry]]

StatusCodes == {200, 201}
Contents == {[action |-> "created", uri |-> "vless://a"],
             [action |-> "existing", uri |-> "vless://a"]}

CacheGet(key) ==
    /\ got' = [key |-> key, at |-> clock, result |-> cache_get(cache, key, clock).result]
    /\ cache' = cache_get(cache, key, clock).cache
    /\ UNCHANGED <<clock, wire, verdicts, sets, panel, tasks, replies>>
    /\ UNCHANGED kvars
    /\ UNCHANGED evars

CacheSet(key, status_code, content) ==
    /\ cache' = cache_set(cache, key, status_code, content, clock)
    /\ sets' = [sets EXCEPT ![key] = [done |-> TRUE, status_code |-> status_code,
                                      content |-> content, at |-> clock]]
    /\ UNCHANGED <<clock, wire, verdicts, got, panel, tasks, replies>>
    /\ UNCHANGED kvars
    /\ UNCHANGED evars

CacheClear ==
    /\ cache' = cache_clear(cache)
    /\ sets' = [k \in IdemKeys |-> NeverSet]
    /\ UNCHANGED <<clock, wire, verdicts, got, panel, tasks, replies>>
    /\ UNCHANGED kvars
    /\ UNCHANGED evars

\* caches as the service and its tests construct them
InitCache ==
    /\ EngineIdle
    /\ clock = Epoch
    /\ wire = {}
    /\ verdicts = {}
    /\ cache \in {IdempotencyCache(ttl) : ttl \in {TickSeconds, DefaultTtl}}
    /\ sets = [k \in IdemKeys |-> NeverSet]
    /\ got = [key |-> "", at |-> 0, result |-> None]
    /\ panel = [clients |-> {}, faults |-> 0]
    /\ tasks = {}
    /\ replies = <<>>
    /\ xui = "unloaded"
    /\ keycalls = <<>>

NextCache ==
    \/ \E key \in IdemKeys : CacheGet(key)
    \/ \E key \in IdemKeys, status_code \in StatusCodes, content \in Contents :
          CacheSet(key, status_code, content)
    \/ CacheClear
    \/ ClockTick

SpecCache == InitCache /\ [][NextCache]_vars

NextHmac == BotSign \/ ServiceVerify \/ ClockTick
SpecHmac == InitHmac /\ [][NextHmac]_vars

(* ---------------- key issue flow (vpn-tg/service/app.py) ---------------- *)
TgUsers == {1, 2}
\* the Idempotency-Key a client sends for its request, "" when the header is absent
KeysOf(u) == IF u = 1 THEN {"abc", ""} ELSE {"xyz", ""}
\* the connection URI the panel holds for a user's client
PanelUri(u) == IF u = 1 THEN "vless://a" ELSE "vless://b"

\* issue_key, line 215, creating on every error status
needs_create_on_error(find_status) == find_status >= 400

\* issue_key, line 215: create only when the lookup answered 404
needs_create(find_status) == find_status = 404

\* issue_key, lines 214-216
issue_action(find_status) == IF find_status = 404 THEN "created" ELSE "existing"

Reply(op, u, key, find, create, status_code, content) ==
    [op |-> op, user |-> u, key |-> key, find |-> find, create |-> create,
     status_code |-> status_code, content |-> content]

\* the panel answers a call: as it should, or with an error while it has some left
PanelAnswers == {"ok", "500", "no uri"}
PanelAnswer(a) ==
    /\ a \in PanelAnswers
    /\ a # "ok" => panel.faults > 0

\* requests received so far; a request is numbered by its order of arrival
Received == Len(replies) + Cardinality(tasks)

\* issue_key, lines 188-213: header check, cache lookup, runner.call(find) sent
IssueKey(u, key) ==
    /\ Received < FlowRequests
    /\ IF key = ""
       THEN /\ replies' = Append(replies, Reply("issue", u, key, 0, 0, 400, NoContent))
            /\ UNCHANGED <<cache, got, tasks>>
       ELSE LET cached == cache_get(cache, key, clock)
            IN /\ cache' = cached.cache
               /\ got' = [key |-> key, at |-> clock, result |-> cached.result]
               /\ IF cached.result.hit
                  THEN /\ replies' = Append(replies,
                              Reply("issue", u, key, 0, 0, cached.result.status_code,
                                    cached.result.content))
                       /\ UNCHANGED tasks
                  ELSE /\ tasks' = tasks \cup {[id |-> Received + 1, user |-> u, key |-> key,
                                                 pc |-> "find", find |-> 0]}
                       /\ UNCHANGED replies
    /\ UNCHANGED <<clock, wire, verdicts, sets, panel>>
    /\ UNCHANGED kvars
    /\ UNCHANGED evars

\* issue_key finishing with a normalized payload: lines 235-247
IssueDone(task, find, create, a) ==
    IF a = "no uri"
    THEN \* MappingError: 502, nothing cached
         /\ replies' = Append(replies, Reply("issue", task.user, task.key, find, create,
                                             502, NoContent))
         /\ UNCHANGED <<cache, sets>>
    ELSE LET content == [action |-> issue_action(find), uri |-> PanelUri(task.user)]
         IN /\ cache' = cache_set(cache, task.key, 200, content, clock)
            /\ sets' = [sets EXCEPT ![task.key] =
                          [done |-> TRUE, status_code |-> 200, content |-> content,
                           at |-> clock]]
            /\ replies' = Append(replies, Reply("issue", task.user, task.key, find, create,
                                                200, content))

\* issue_key, lines 210-233: the panel answers the find_by_user call
IssueFind ==
    \E task \in tasks : \E a \in PanelAnswers :
    /\ task.pc = "find"
    /\ PanelAnswer(a)
    /\ LET find == IF a = "500" THEN 500
                   ELSE IF task.user \in panel.clients THEN 200 ELSE 404
       IN /\ panel' = [panel EXCEPT !.faults = IF a = "ok" THEN @ ELSE @ - 1]
          /\ IF needs_create(find)
             THEN /\ tasks' = (tasks \ {task})
                                \cup {[task EXCEPT !.pc = "create", !.find = find]}
                  /\ UNCHANGED <<cache, sets, replies>>
             ELSE IF find >= 400
             THEN \* handle_panel_error
                  /\ tasks' = tasks \ {task}
                  /\ replies' = Append(replies, Reply("issue", task.user, task.key, find, 0,
                                                      find, NoContent))
                  /\ UNCHANGED <<cache, sets>>
             ELSE /\ tasks' = tasks \ {task}
                  /\ IssueDone(task, find, 0, a)
    /\ UNCHANGED <<clock, wire, verdicts, got>>
    /\ UNCHANGED kvars
    /\ UNCHANGED evars

\* issue_key, lines 223-229: the panel answers the create_for_user call
IssueCreate ==
    \E task \in tasks : \E a \in PanelAnswers :
    /\ task.pc = "create"
    /\ PanelAnswer(a)
    /\ tasks' = tasks \ {task}
    /\ IF a = "500"
       THEN /\ panel' = [panel EXCEPT !.faults = @ - 1]
            /\ replies' = Append(replies, Reply("issue", task.user, task.key, task.find,
                                                500, 500, NoContent))
            /\ UNCHANGED <<cache, sets>>
       ELSE /\ panel' = [panel EXCEPT !.clients = @ \cup {task.user},
                                      !.faults = IF a = "ok" THEN @ ELSE @ - 1]
            /\ IssueDone(task, task.find, 200, a)
    /\ UNCHANGED <<clock, wire, verdicts, got>>
    /\ UNCHANGED kvars
    /\ UNCHANGED evars

\* get_key_by_user: the panel answers the find_by_user call
GetKeyByUser(u) ==
    /\ Received < FlowRequests
    /\ \E a \in PanelAnswers :
        /\ PanelAnswer(a)
        /\ panel' = [panel EXCEPT !.faults = IF a = "ok" THEN @ ELSE @ - 1]
        /\ LET find == IF a = "500" THEN 500
                       ELSE IF u \in panel.clients THEN 200 ELSE 404
           IN replies' = Append(replies,
                IF find >= 400 THEN Reply("by-user", u, "", find, 0, find, NoContent)
                ELSE IF a = "no uri" THEN Reply("by-user", u, "", find, 0, 502, NoContent)
                ELSE Reply("by-user", u, "", find, 0, 200,
                           [action |-> "", uri |-> PanelUri(u)]))
    /\ UNCHANGED <<clock, wire, verdicts, cache, sets, got, tasks>>
    /\ UNCHANGED kvars
    /\ UNCHANGED evars

InitFlow ==
    /\ EngineIdle
    /\ clock = Epoch
    /\ wire = {}
    /\ verdicts = {}
    /\ cache = IdempotencyCache(DefaultTtl)
    /\ sets = [k \in IdemKeys |-> NeverSet]
    /\ got = [key |-> "", at |-> 0, result |-> None]
    /\ panel \in {[clients |-> c, faults |-> FlowFaults] : c \in {{}, {2}}}
    /\ tasks = {}
    /\ replies = <<>>
    /\ xui = "unloaded"
    /\ keycalls = <<>>

NextFlow ==
    \/ \E u \in TgUsers : \E key \in KeysOf(u) : IssueKey(u, key)
    \/ IssueFind
    \/ IssueCreate
    \/ \E u \in TgUsers : GetKeyByUser(u)
    \/ ClockTick

SpecFlow == InitFlow /\ [][NextFlow]_vars

(* ---------------- user commands of routex_bot ---------------- *)
\* what compiling routex_bot/services/xui_client.py gives: the file holds the
\* separator lines `=======` of an unresolved merge (lines 9 and 125), which
\* are not Python
compile_xui_client == "SyntaxError"

\* `from routex_bot.services.xui_client import XUIClient, ensure_or_create_key`
ImportXuiClient ==
    /\ xui = "unloaded"
    /\ xui' = compile_xui_client
    /\ UNCHANGED keycalls
    /\ UNCHANGED rvars
    /\ UNCHANGED evars

\* a caller of ensure_or_create_key(db, client, tg_id): the import has raised,
\* so the call never enters the function
EnsureOrCreateKey(u) ==
    /\ xui = "SyntaxError"
    /\ Len(keycalls) < KeyCalls
    /\ keycalls' = Append(keycalls, [user |-> u, raised |-> xui, key |-> NullText,
                                     creates |-> 0])
    /\ UNCHANGED xui
    /\ UNCHANGED rvars
    /\ UNCHANGED evars

\* /optout: ensure_user, update_subscription(False)
OptOut(u) ==
    /\ users' = update_subscription(users, u, FALSE, now)
    /\ UNCHANGED <<svars, boot>>
    /\ UNCHANGED <<batch_size, schedules, next_id, deliveries, audit, jobs, run, ops,
                   now, fires, limits, faults, opcount>>

\* /optin: ensure_user, update_subscription(True)
OptIn(u) ==
    /\ users' = update_subscription(users, u, TRUE, now)
    /\ UNCHANGED <<svars, boot>>
    /\ UNCHANGED <<batch_size, schedules, next_id, deliveries, audit, jobs, run, ops,
                   now, fires, limits, faults, opcount>>

InitKeys ==
    /\ ServiceInit
    /\ batch_size = 1
    /\ users = [u \in 1..SchedUsers |-> NewUser(0)]
    /\ schedules = [s \in SchedIds |-> NoSchedule]
    /\ next_id = 1
    /\ deliveries = <<>>
    /\ audit = EmptyBag
    /\ jobs = {}
    /\ run = [s \in SchedIds |-> IdleRun]
    /\ ops = {}
    /\ now = 0
    /\ fires = 0
    /\ limits = [fires |-> 0, clock |-> KeyClock]
    /\ faults = 0
    /\ opcount = 0
    /\ boot = "started"

NextKeys ==
    \/ ImportXuiClient
    \/ \E u \in DOMAIN users : EnsureOrCreateKey(u)
    \/ \E u \in DOMAIN users : OptOut(u)
    \/ \E u \in DOMAIN users : OptIn(u)
    \/ Tick

SpecKeys == InitKeys /\ [][NextKeys]_vars

\* one armed schedule whose fires interleave with /optout commands
InitSnapshot == ArmedInit(SnapUsers, SnapFires, SnapFaults, SnapBatch, SnapClock)

NextSnapshot ==
    \/ NextRun
    \/ \E u \in DOMAIN users : OptOut(u)

SpecSnapshot == InitSnapshot /\ [][NextSnapshot]_vars

(* ======================= properties ======================= *)
DeliveryIds == 1..Len(deliveries)
RowsOfFire(f) == {i \in DeliveryIds : deliveries[i].fire = f}
\* a coroutine is between enqueue_delivery and the end of the loop body for row i
InFlight(i) ==
    \E s \in SchedIds : /\ run[s].delivery_id = i
                        /\ run[s].pc \in {"send", "backoff", "retry", "retry_sleep"}
Terminal(i) == deliveries[i].status \in {"sent", "failed"}
Ended(s) == run[s].pc \in {"done", "raised"}

\* C1: for any single delivery the number of send attempts (the first one
\* plus those of _retry_delivery) never exceeds 3.
C1_RetryBudget ==
    \A i \in DeliveryIds : deliveries[i].attempts <= RetryLimit

\* C2: a delivery whose first 3 attempts were all rate-limited ends as one
\* failed row with the retry-exhaustion error, counted once in failed.
C2_ExhaustedAfterThree ==
    \A i \in DeliveryIds :
        (deliveries[i].limited >= RetryLimit /\ ~InFlight(i)) =>
            /\ deliveries[i].status = "failed"
            /\ deliveries[i].error = RetryLimitExceeded
            /\ Cardinality({j \in RowsOfFire(deliveries[i].fire) :
                              deliveries[j].user_id = deliveries[i].user_id}) = 1
            /\ \A s \in SchedIds :
                  run[s].fire = deliveries[i].fire =>
                      run[s].failed = Cardinality({j \in RowsOfFire(run[s].fire) :
                                                      deliveries[j].status = "failed"})

\* C3: a rate-limited send that then succeeds leaves exactly one row for that
\* recipient in the run, with status sent (the retries updated the row that
\* enqueue_delivery created), and the run's sent count has counted it once.
C3_RetriedSentOneRow ==
    \A i \in DeliveryIds :
        (deliveries[i].limited >= 1 /\ deliveries[i].status = "sent") =>
            /\ {j \in RowsOfFire(deliveries[i].fire) :
                    deliveries[j].user_id = deliveries[i].user_id} = {i}
            /\ deliveries[i].changes = 1
            /\ \A s \in SchedIds :
                  run[s].fire = deliveries[i].fire =>
                      run[s].sent = Cardinality({j \in RowsOfFire(run[s].fire) :
                                                    deliveries[j].status = "sent"})

C3_Witness ==
    \E i \in DeliveryIds :
        /\ deliveries[i].limited = 2
        /\ deliveries[i].attempts = RetryLimit
        /\ deliveries[i].status = "sent"
        /\ ~InFlight(i)

\* C4: whatever a send answers for one recipient, on the first attempt or on
\* a retry, broadcast() does not raise: the delivery is recorded failed and
\* every remaining recipient of the run is processed.
C4_NeverAborts ==
    \A s \in SchedIds :
        /\ run[s].pc # "raised"
        /\ run[s].pc = "done" /\ run[s].started =>
              run[s].queued + run[s].skipped = Len(run[s].recipients)

\* C5: a row is queued and unwritten while its send is in progress, and once
\* its send is over its status has been written exactly once, to sent or failed.
C5_Lifecycle ==
    \A i \in DeliveryIds :
        IF InFlight(i)
        THEN deliveries[i].status = "queued" /\ deliveries[i].changes = 0
        ELSE Terminal(i) /\ deliveries[i].changes = 1

\* C6: when a schedule is deleted while one of its fires is in flight, that
\* run completes: it does not raise and every recipient it resolved has been
\* enqueued and attempted (or skipped by dedup) when it ends.
C6_InFlightRunCompletes ==
    \A s \in SchedIds :
        (s < next_id /\ ~schedules[s].exists /\ run[s].started /\ Ended(s)) =>
            /\ run[s].pc = "done"
            /\ run[s].queued + run[s].skipped = Len(run[s].recipients)
            /\ \A i \in RowsOfFire(run[s].fire) : deliveries[i].attempts >= 1

\* a row of schedule s for recipient u was sent within the dedup window
Delivered(s, u) ==
    \E i \in DeliveryIds :
        /\ deliveries[i].schedule_id = s
        /\ deliveries[i].user_id = u
        /\ deliveries[i].status = "sent"
        /\ now - deliveries[i].sent_at <= DedupHours

\* C7: when a run of schedule s reaches a recipient already delivered to for
\* s within 24 hours, it skips them: no row is inserted, no send is started,
\* queued does not count them; and the returned queued is the number of rows
\* the run inserted.
C7_DedupSkips ==
    [][\A s \in SchedIds :
          /\ (run[s].pc = "next" /\ run'[s] # run[s]
              /\ Delivered(s, Batches(run[s])[run[s].bi][run[s].ui])) =>
                  /\ deliveries' = deliveries
                  /\ run'[s].pc # "send"
                  /\ run'[s].queued = run[s].queued
                  /\ run'[s].skipped = run[s].skipped + 1
          /\ (run'[s].pc = "done" /\ run'[s].started) =>
                  run'[s].queued = Cardinality({i \in 1..Len(deliveries') :
                                                   deliveries'[i].fire = run'[s].fire})
      ]_vars

C7_Witness ==
    \E s \in SchedIds :
        /\ run[s].pc = "done"
        /\ run[s].skipped >= 1
        /\ run[s].queued >= 1

\* C8: a forbidden / not-found answer, on the first attempt or on a retry,
\* marks the delivery failed and clears the recipient's subscription flag, so
\* that all_subscribed no longer resolves to that recipient.
C8_PermanentUnsubscribes ==
    [][\A i \in DeliveryIds :
          (deliveries'[i].error = "TelegramForbiddenError"
           /\ deliveries[i].error # "TelegramForbiddenError") =>
              LET u == deliveries[i].user_id
                  resolved == list_users_for_segment(AllSubscribed, users', now')
              IN /\ deliveries'[i].status = "failed"
                 /\ ~users'[u].is_subscribed
                 /\ \A k \in 1..Len(resolved) : resolved[k] # u
      ]_vars

C8_Witness ==
    \E i \in DeliveryIds :
        /\ deliveries[i].error = "TelegramForbiddenError"
        /\ deliveries[i].attempts >= 2
        /\ ~users[deliveries[i].user_id].is_subscribed

\* C9: a fire starts a broadcast only while the store has the schedule
\* enabled; the disarming half of toggle leaves no timer for the id; the
\* arming half leaves exactly one timer, built from the persisted spec.
C9_ToggleArms ==
    [][/\ \A s \in SchedIds :
            (run'[s].started /\ ~run[s].started) =>
                schedules[s].exists /\ schedules[s].enabled
       /\ \A op \in ops :
            (op.kind = "toggle" /\ op \notin ops') =>
                IF op.enabled
                THEN schedules[op.id].exists =>
                        {j.trigger : j \in {k \in jobs' : k.id = op.id}}
                          = {[kind |-> schedules[op.id].type, spec |-> schedules[op.id].spec]}
                ELSE {k \in jobs' : k.id = op.id} = {}
      ]_vars

\* the segment conditions of the specification, on one users row at hour t
InSegment(segment, row, t) ==
    CASE segment.type = "all_subscribed" -> row.is_subscribed
      [] segment.type = "no_key" -> row.is_subscribed /\ row.key = NullText
      [] segment.type = "inactive_30d" ->
             row.is_subscribed /\ t - row.last_activity_at > InactiveHours
      [] segment.type = "donors" -> row.is_subscribed /\ row.is_donor
      [] segment.type = "custom_sql" /\ segment.where = "is_donor = 1" -> row.is_donor
      [] segment.type = "custom_sql" /\ segment.where = "key IS NULL" -> row.key = NullText
      [] segment.type = "custom_sql" -> FALSE
      [] OTHER -> row.is_subscribed

\* the segment is one the resolver accepts
WellFormed(segment) ==
    segment.type = "custom_sql" =>
        segment.where \in {"is_donor = 1", "key IS NULL"}

\* C11: a run whose segment matches no users row returns (0,0,0) at once:
\* it writes no delivery row, calls no send and leaves every users row alone.
C11_EmptySegment ==
    [][\A s \in SchedIds :
          (/\ run[s].pc = "runner" /\ run'[s] # run[s]
           /\ schedules[s].exists /\ schedules[s].enabled
           /\ WellFormed(schedules[s].segment)
           /\ ~\E u \in DOMAIN users : InSegment(schedules[s].segment, users[u], now)) =>
              /\ run'[s].pc = "done"
              /\ <<run'[s].queued, run'[s].sent, run'[s].failed>> = <<0, 0, 0>>
              /\ deliveries' = deliveries
              /\ users' = users
              /\ faults' = faults
      ]_vars

C11_Witness ==
    \E s \in SchedIds :
        /\ run[s].pc = "done" /\ run[s].started
        /\ run[s].recipients = <<>>
        /\ schedules[s].segment.type = "donors"
        /\ \E u \in DOMAIN users : users[u].is_subscribed
        /\ deliveries = <<>>

\* C12: a custom_sql segment whose condition is empty or holds "--" is
\* rejected with ValueError before the query: the broadcast over it resolves
\* no recipient, creates no delivery row and sends nothing.
C12_CustomRejected ==
    [][\A s \in SchedIds :
          (/\ run[s].pc = "runner" /\ run'[s] # run[s]
           /\ schedules[s].exists /\ schedules[s].enabled
           /\ ~WellFormed(schedules[s].segment)) =>
              /\ run'[s].pc = "raised" /\ run'[s].error = "ValueError"
              /\ run'[s].recipients = <<>>
              /\ deliveries' = deliveries
              /\ users' = users
              /\ faults' = faults
      ]_vars

C12_Witness ==
    \E s \in SchedIds :
        /\ run[s].pc = "raised" /\ run[s].error = "ValueError"
        /\ schedules[s].segment = Segment("custom_sql", "is_donor = 1 -- x")
        /\ \E u \in DOMAIN users : users[u].is_donor
        /\ deliveries = <<>>

\* ceil(n / b)
CeilDiv(n, b) == (n + b - 1) \div b

RECURSIVE Flatten(_)
Flatten(ss) == IF ss = <<>> THEN <<>> ELSE Head(ss) \o Flatten(Tail(ss))

\* every send of the run answered ok
AllOk(s) ==
    \A i \in RowsOfFire(run[s].fire) :
        deliveries[i].limited = 0 /\ deliveries[i].error = ""

\* C10: n recipients with batch size b are processed as ceil(n/b) batches in
\* resolver order, all of size b but possibly the last; a finished run with
\* no dedup skip and only successful sends returns (n, n, 0) and has n sent rows.
C10_Batching ==
    \A s \in SchedIds :
        (run[s].started /\ run[s].recipients # <<>>) =>
            LET r == run[s]
                n == Len(r.recipients)
                B == Batches(r)
            IN /\ Len(B) = CeilDiv(n, batch_size)
               /\ \A k \in 1..Len(B) - 1 : Len(B[k]) = batch_size
               /\ Len(B[Len(B)]) \in 1..batch_size
               /\ Flatten(B) = r.recipients
               /\ r.pc = "done" => r.bi = CeilDiv(n, batch_size)
               /\ (r.pc = "done" /\ r.skipped = 0 /\ AllOk(s)) =>
                     /\ <<r.queued, r.sent, r.failed>> = <<n, n, 0>>
                     /\ Cardinality({i \in RowsOfFire(r.fire) :
                                        deliveries[i].status = "sent"}) = n

C10_Witness ==
    \E s \in SchedIds :
        /\ run[s].pc = "done"
        /\ Len(run[s].recipients) = 3
        /\ batch_size = 2
        /\ run[s].sent = 3

\* C13: a request the client signed with the service's secret, verified
\* while its timestamp lies within the allowed window, is accepted, whatever
\* its nonce and body.
C13_HmacRoundTrip ==
    \A v \in verdicts :
        (/\ v.request.secret = ServiceSecret
         /\ v.at - Int_(v.request.headers.X_Timestamp) <= MaxAgeSeconds) =>
            v.result = "ok"

\* C14: get(k) returns the (status, content) of the latest set(k, ...) while
\* no more than the TTL has passed since that set, and returns None and drops
\* the entry once more than the TTL has passed; get of a key never set (or
\* cleared since) returns None.
C14_CacheTtl ==
    [][(sets' = sets /\ clock' = clock /\ (got' # got \/ cache' # cache)) =>
          LET k == got'.key
              last == sets[k]
          IN /\ got'.at = clock
             /\ IF ~last.done
                THEN got'.result = None
                ELSE IF clock - last.at <= cache._ttl
                THEN got'.result = [hit |-> TRUE, status_code |-> last.status_code,
                                    content |-> last.content]
                ELSE /\ got'.result = None
                     /\ ~cache'._storage[k].present
      ]_vars

C14_Witness ==
    /\ got.result = None
    /\ got.key \in IdemKeys
    /\ sets[got.key].done
    /\ got.at - sets[got.key].at > cache._ttl
    /\ ~cache._storage[got.key].present
    /\ \E k \in IdemKeys : cache._storage[k].present

\* C15: issue_key calls the panel's create exactly when its own lookup
\* answered 404, and then answers action = created; it answers action =
\* existing when the lookup found the client; and once an issue has answered
\* 200 for a user, a later by-user lookup for that user is not answered 404
\* and, when answered 200, returns the issued key.
C15_IssueFlow ==
    \A i \in 1..Len(replies) :
          LET r == replies[i]
          IN r.op = "issue" =>
                /\ (r.create # 0) <=> (r.find = 404)
                /\ (r.status_code = 200 /\ r.find = 404) => r.content.action = "created"
                /\ (r.status_code = 200 /\ r.find = 200) => r.content.action = "existing"
                /\ \A j \in (i + 1)..Len(replies) :
                      (/\ r.status_code = 200
                       /\ replies[j].op = "by-user"
                       /\ replies[j].user = r.user) =>
                          /\ replies[j].status_code # 404
                          /\ replies[j].status_code = 200 =>
                                replies[j].content.uri = r.content.uri

C15_Witness ==
    \E i, j \in 1..Len(replies) :
        /\ i < j
        /\ replies[i].op = "issue" /\ replies[i].content.action = "created"
        /\ replies[i].create = 200
        /\ replies[j].op = "by-user" /\ replies[j].user = replies[i].user
        /\ replies[j].status_code = 200

\* C16: a call of ensure_or_create_key ends by returning a key k that the
\* users table then holds for that user, having called the panel's create at
\* most once.
C16_KeyStored ==
    \A i \in 1..Len(keycalls) :
        /\ keycalls[i].raised = ""
        /\ keycalls[i].key # NullText
        /\ users[keycalls[i].user].key = keycalls[i].key
        /\ keycalls[i].creates <= 1

\* the trigger spec or the segment of a schedules row is malformed
Malformed(row) ==
    \/ row.type = "cron" /\ row.spec \notin ValidCron
    \/ row.type = "interval" /\ row.spec \notin ValidInterval
    \/ ~WellFormed(row.segment)

\* C17: when add_schedule was given an unparsable cron spec, a malformed
\* interval spec or a malformed custom_sql segment, it ends with no schedules
\* row, no timer and no schedule_create event for the new id.
C17_NotPersisted ==
    [][\A op \in ops :
          (/\ op.kind = "add" /\ op \notin ops'
           /\ schedules[op.id].exists
           /\ Malformed(schedules[op.id])) =>
              /\ ~schedules'[op.id].exists
              /\ {j \in jobs' : j.id = op.id} = {}
              /\ audit' = audit
      ]_vars

\* C18: start() does not raise when one persisted schedule cannot be armed,
\* and every other enabled schedule of the store is armed when it ends.
C18_StartIsolated ==
    boot \in {"started", "raised"} =>
        /\ boot = "started"
        /\ \A s \in DOMAIN schedules :
              (/\ schedules[s].exists /\ schedules[s].enabled
               /\ _build_trigger(schedules[s]) \notin TriggerErrors) =>
                  \E j \in jobs : j.id = s

\* delivery i of recipient u is written to `status` by this step
Written(i, u, status) ==
    /\ i <= Len(deliveries)
    /\ deliveries[i].user_id = u
    /\ deliveries[i].status = "queued"
    /\ deliveries'[i].status = status

\* C19: a run writes a recipient's activity timestamp only with a successful
\* send to them; a forbidden / not-found answer changes only their
\* subscription flag; any other failure changes nothing of the recipient.
C19_RecipientFrame ==
    [][\A u \in DOMAIN users :
          /\ users'[u].last_activity_at # users[u].last_activity_at =>
                \E i \in 1..Len(deliveries') : Written(i, u, "sent")
          /\ users'[u].is_subscribed # users[u].is_subscribed =>
                \E i \in 1..Len(deliveries') :
                    /\ Written(i, u, "failed")
                    /\ deliveries'[i].error = "TelegramForbiddenError"
          /\ users'[u].key = users[u].key
          /\ users'[u].is_donor = users[u].is_donor
      ]_vars

\* rows of fire f whose status is `status`
RowsWith(f, status) == {i \in RowsOfFire(f) : deliveries[i].status = status}

\* C20: when broadcast() has returned (queued, sent, failed): queued = sent +
\* failed, queued is the number of delivery rows the run created, sent and
\* failed are the numbers of those rows with final status sent and failed,
\* and none of them is still queued.
C20_ExactCounts ==
    \A s \in SchedIds :
        (run[s].pc = "done" /\ run[s].started) =>
            LET r == run[s]
            IN /\ r.queued = r.sent + r.failed
               /\ r.queued = Cardinality(RowsOfFire(r.fire))
               /\ r.sent = Cardinality(RowsWith(r.fire, "sent"))
               /\ r.failed = Cardinality(RowsWith(r.fire, "failed"))
               /\ RowsWith(r.fire, "queued") = {}

C20_Witness ==
    \E s \in SchedIds :
        /\ run[s].pc = "done"
        /\ run[s].started
        /\ run[s].sent = 1
        /\ run[s].failed = 1
        /\ \E i \in RowsOfFire(run[s].fire) :
              deliveries[i].error = RetryLimitExceeded

\* C21: while a delete_schedule call is under way, the row of its schedule is
\* never gone from the store with the timer of that schedule still armed (the
\* timer is disarmed before the row is deleted).
C21_DisarmBeforeDelete ==
    \A op \in ops :
        (op.kind = "delete" /\ ~schedules[op.id].exists) =>
            ~\E j \in jobs : j.id = op.id

FormatErrors == {"KeyError", "ValueError", "IndexError"}

\* C22: whatever the template, rendering never aborts a recipient: no run
\* ends with an exception of str.format, and the text handed to send_message
\* is the template with {username} / {key} substituted or the raw template.
C22_RenderNeverAborts ==
    \A s \in SchedIds :
        /\ run[s].pc = "raised" => run[s].error \notin FormatErrors
        /\ run[s].pc \in {"send", "backoff", "retry", "retry_sleep"} =>
              LET user == users[deliveries[run[s].delivery_id].user_id]
                  r == Format(run[s].text, Placeholders(user), 1, <<>>)
              IN run[s].message_text = (IF r.raised = "" THEN r.text ELSE run[s].text)

\* the run of schedule s is between enqueue_delivery and the end of a send
Sending(s) == run[s].pc \in {"send", "backoff", "retry", "retry_sleep"}

\* at most one delivery of the run is not terminal, the one being sent; so
\* every delivery of an earlier batch is terminal when a batch starts
OneInFlight(s) ==
    \A i \in RowsOfFire(run[s].fire) :
        deliveries[i].status = "queued" => (Sending(s) /\ i = run[s].delivery_id)

\* C23: within one run at most one send is in flight, a batch starts only
\* when every delivery of the batches before it is terminal and the pause
\* after them is over, and a pause is taken only between batches: it is
\* always followed by another batch.
C23_Pacing ==
    \A s \in SchedIds :
        (run[s].started /\ run[s].pc # "raised") =>
            /\ OneInFlight(s)
            /\ run[s].pc = "pause" => run[s].bi < Len(Batches(run[s]))

KnownTags == {"all_subscribed", "no_key", "inactive_30d", "donors", "custom_sql"}

\* the step in which the run of schedule s resolves its recipients
Resolves(s) ==
    /\ run[s].pc = "runner"
    /\ run'[s].started

\* C24: a segment whose type tag is unknown or missing resolves to exactly
\* the recipients of all_subscribed: no error, and the same list.
C24_UnknownTag ==
    [][\A s \in SchedIds :
          (/\ run[s].pc = "runner" /\ run'[s] # run[s]
           /\ schedules[s].exists /\ schedules[s].enabled
           /\ schedules[s].segment.type \notin KnownTags) =>
              /\ Resolves(s)
              /\ run'[s].recipients = SortedSeq({u \in DOMAIN users : users[u].is_subscribed})
              /\ run'[s].recipients = list_users_for_segment(AllSubscribed, users, now)
      ]_vars

C24_Witness ==
    \E s \in SchedIds :
        /\ schedules[s].segment.type \notin KnownTags
        /\ run[s].started
        /\ Len(run[s].recipients) = 1
        /\ \E u \in DOMAIN users : ~users[u].is_subscribed /\ users[u].is_donor

CustomReachesUnsubscribed ==
    \E s \in SchedIds :
        /\ run[s].pc = "next"
        /\ schedules[s].segment.type = "custom_sql"
        /\ \E i \in 1..Len(run[s].recipients) :
              ~users[run[s].recipients[i]].is_subscribed

\* rows the fire f has inserted, after the step
RowsOfFireNext(f) == {i \in 1..Len(deliveries') : deliveries'[i].fire = f}

\* the run of schedule s has ended with one terminal row of its own for every
\* recipient it did not skip
RunComplete(s) ==
    LET r == run'[s]
        rows == RowsOfFireNext(r.fire)
    IN /\ Cardinality(rows) = Len(r.recipients) - r.skipped
       /\ \A i, j \in rows : deliveries'[i].user_id = deliveries'[j].user_id => i = j
       /\ \A i \in rows : /\ deliveries'[i].status \in {"sent", "failed"}
                           /\ deliveries'[i].schedule_id = s

\* the run of schedule s skips a recipient only for a row of schedule s
OwnDedup(s) ==
    (run[s].pc = "next" /\ run'[s].skipped = run[s].skipped + 1) =>
        \E i \in 1..Len(deliveries) :
            /\ deliveries[i].schedule_id = s
            /\ deliveries[i].user_id = Batches(run[s])[run[s].bi][run[s].ui]
            /\ deliveries[i].sent_at # -1

\* a row is written only by the run that inserted it
OwnRows ==
    \A i \in 1..Len(deliveries) :
        deliveries'[i] # deliveries[i] =>
            \E s \in SchedIds : run'[s] # run[s] /\ deliveries[i].fire = run[s].fire

\* C26: when the runs of two schedules interleave, each run creates exactly
\* one delivery row per recipient it does not skip and drives it to a
\* terminal state, skips a recipient only for a delivery of its own schedule,
\* and never writes a row the other run created.
C26_Independent ==
    [][/\ \A s \in SchedIds :
             (run'[s].started /\ run'[s].pc \in {"done", "raised"}) => RunComplete(s)
       /\ \A s \in SchedIds : OwnDedup(s)
       /\ OwnRows
      ]_vars

\* C27: once every add_schedule, toggle_schedule and delete_schedule call has
\* completed, a timer exists for a schedule id only if the store holds that
\* row with enabled = true, and no id has two timers.
C27_TimerStoreConsistent ==
    ops = {} =>
        /\ \A j \in jobs : schedules[j.id].exists /\ schedules[j.id].enabled
        /\ \A j, k \in jobs : j.id = k.id => j = k

\* create_for_user calls made for Idempotency-Key k: answered and under way
Creates(k) ==
    Cardinality({i \in 1..Len(replies) : replies[i].key = k /\ replies[i].create # 0})
    + Cardinality({t \in tasks : t.key = k /\ t.pc = "create"})

\* C28: the issue_key requests carrying one Idempotency-Key within the TTL
\* cause at most one create_for_user call in total, also when two of them
\* are processed concurrently.
C28_OneCreatePerKey ==
    (clock - Epoch <= DefaultTtl) =>
        \A k \in IdemKeys : Creates(k) <= 1

\* a delivery of schedule s to recipient u reached sent or failed within the
\* dedup window
RecentTerminal(s, u) ==
    \E i \in 1..Len(deliveries) :
        /\ deliveries[i].schedule_id = s
        /\ deliveries[i].user_id = u
        /\ deliveries[i].status \in {"sent", "failed"}
        /\ now - deliveries[i].sent_at <= DedupHours

\* C29: a run of schedule s skips a recipient exactly when some delivery of
\* s to them reached a terminal state, sent or failed, within the last 24
\* hours; a failed delivery suppresses the next send like a sent one, a row
\* still queued never does.
C29_TerminalDedup ==
    [][\A s \in SchedIds :
          (run[s].pc = "next" /\ run'[s] # run[s]) =>
              LET u == Batches(run[s])[run[s].bi][run[s].ui]
              IN /\ (run'[s].skipped = run[s].skipped + 1) <=> RecentTerminal(s, u)
                 /\ (deliveries' = deliveries) <=> RecentTerminal(s, u)
      ]_vars

\* the second fire has skipped a recipient whose delivery of the first fire
\* failed
C29_Witness ==
    \E s \in SchedIds :
        /\ run[s].fire = 2
        /\ run[s].pc = "done"
        /\ run[s].skipped >= 1
        /\ \E i \in 1..Len(deliveries) :
              /\ deliveries[i].fire = 1
              /\ deliveries[i].status = "failed"
              /\ ~\E j \in 1..Len(deliveries) :
                    deliveries[j].fire = 2 /\ deliveries[j].user_id = deliveries[i].user_id

\* the run of schedule s is inside the loop of broadcast()
InLoop(s) == run[s].pc \in {"next", "send", "backoff", "retry", "retry_sleep", "pause"}

\* C30: broadcast() resolves its recipients once, before the first send: the
\* list does not change while the run goes on, every recipient of it who is
\* not skipped by dedup is enqueued and sent to when their turn comes, whatever
\* their subscription flag is by then, and a run that resolves later leaves
\* out the recipients unsubscribed by then.
C30_Snapshot ==
    [][\A s \in SchedIds :
          /\ (InLoop(s) /\ run'[s].pc # "runner") =>
                run'[s].recipients = run[s].recipients
          /\ (run[s].pc = "next" /\ run'[s] # run[s]
              /\ ~RecentTerminal(s, Batches(run[s])[run[s].bi][run[s].ui])) =>
                /\ Len(deliveries') = Len(deliveries) + 1
                /\ deliveries'[Len(deliveries')].user_id
                      = Batches(run[s])[run[s].bi][run[s].ui]
                /\ run'[s].pc = "send"
          /\ (run[s].pc = "send" /\ run'[s] # run[s]) =>
                deliveries'[run[s].delivery_id].attempts
                  = deliveries[run[s].delivery_id].attempts + 1
          /\ Resolves(s) =>
                \A i \in 1..Len(run'[s].recipients) :
                    users[run'[s].recipients[i]].is_subscribed
      ]_vars

\* a recipient who had opted out when their turn came has been sent to
C30_Witness ==
    \E s \in SchedIds :
        /\ run[s].started
        /\ ~run[s].turn_flag
        /\ run[s].delivery_id \in 1..Len(deliveries)
        /\ deliveries[run[s].delivery_id].status = "sent"
        /\ deliveries[run[s].delivery_id].fire = run[s].fire

====
